---- MODULE Spec2Model ----
(***************************************************************************)
(* FairPrice: the /api/analyze request handler, its CPI index cache and    *)
(* its payment verification, as a state machine.                           *)
(*                                                                         *)
(* JavaScript numbers are modelled as exact rationals [n, d] in lowest     *)
(* terms with d > 0, plus NaN = 0/0 and +-Infinity = +-1/0.  The decimal   *)
(* literals of the source are the rationals they denote (0.9 = 9/10,       *)
(* 1.15 = 23/20, ...).                                                     *)
(***************************************************************************)
EXTENDS Integers, Sequences, FiniteSets, TLC

\* ------------------------------------------------------------------ bounds
NumReq == 2          \* request slots handled by one process
MaxTicks == 2        \* clock advances of half a freshness window each
MaxPrice == 150      \* the classifier on its own: price in 1..MaxPrice
MaxMedian == 100     \* the classifier on its own: median in 1..MaxMedian

\* ------------------------------------------------------- program constants
CACHE_MS == 3600000

\* ------------------------------------------------------------ JS numbers
Abs(i) == IF i < 0 THEN 0 - i ELSE i
Sign(i) == IF i < 0 THEN 0 - 1 ELSE IF i > 0 THEN 1 ELSE 0

RECURSIVE Gcd(_, _)
Gcd(a, b) == IF b = 0 THEN a ELSE Gcd(b, a % b)

\* n/d in lowest terms, d >= 0; x/0 is NaN (x = 0) or +-Infinity.
Rat(n, d) ==
  IF d = 0 THEN [n |-> Sign(n), d |-> 0]
  ELSE LET g == Gcd(Abs(n), Abs(d))
       IN  [n |-> (Sign(d) * n) \div g, d |-> Abs(d) \div g]

Num(i) == [n |-> i, d |-> 1]
NaN == [n |-> 0, d |-> 0]
IsNaN(x) == x.n = 0 /\ x.d = 0
IsFinite(x) == x.d > 0

Mul(a, b) == IF IsNaN(a) \/ IsNaN(b) THEN NaN ELSE Rat(a.n * b.n, a.d * b.d)
Div(a, b) == IF IsNaN(a) \/ IsNaN(b) THEN NaN ELSE Rat(a.n * b.d, a.d * b.n)
Sub(a, b) ==
  IF IsNaN(a) \/ IsNaN(b) THEN NaN
  ELSE IF a.d = 0 THEN (IF b.d = 0 /\ b.n = a.n THEN NaN ELSE a)
  ELSE IF b.d = 0 THEN [n |-> 0 - b.n, d |-> 0]
  ELSE Rat(a.n * b.d - b.n * a.d, a.d * b.d)

\* a < b and a > b of JavaScript: false as soon as one side is NaN.
Lt(a, b) == ~IsNaN(a) /\ ~IsNaN(b) /\ a.n * b.d < b.n * a.d
Gt(a, b) == Lt(b, a)
Ge(a, b) == ~IsNaN(a) /\ ~IsNaN(b) /\ a.n * b.d >= b.n * a.d

\* Math.min / Math.max: NaN if either argument is NaN.
MathMin(a, b) == IF IsNaN(a) \/ IsNaN(b) THEN NaN ELSE IF Lt(b, a) THEN b ELSE a
MathMax(a, b) == IF IsNaN(a) \/ IsNaN(b) THEN NaN ELSE IF Lt(a, b) THEN b ELSE a

\* Math.round of a finite number: floor(x + 1/2); NaN and Infinity unchanged.
MathRound(x) ==
  IF x.d = 0 THEN x
  ELSE LET t == 2 * x.n + x.d
           q == 2 * x.d
           f == IF t >= 0 THEN t \div q ELSE 0 - ((q - 1 - t) \div q)
       IN  Num(f)

\* ------------------------------------------------------------- classifier
clamp(n, a, b) == MathMax(a, MathMin(b, n))

ClassifyUnderInclusive(r) == ~Gt(r, Rat(9, 10))
ClassifyUnder(r) == Lt(r, Rat(9, 10))

ClassifyOver(r) == Gt(r, Rat(23, 20))

classify(price, median) ==
  LET r == Div(price, median)
      score == clamp(Div(Sub(r, Rat(4, 5)), Sub(Rat(7, 5), Rat(4, 5))), Num(0), Num(1))
      label == IF ClassifyUnder(r) THEN "under"
               ELSE IF ClassifyOver(r) THEN "over"
               ELSE "fair"
  IN  [ratio |-> r, score |-> score, label |-> label]

marginEstimate(ratio) ==
  IF Lt(ratio, Rat(19, 20)) THEN "Low-normal (estimated 10-20%)"
  ELSE IF Lt(ratio, Rat(11, 10)) THEN "Normal (estimated 15-30%)"
  ELSE IF Lt(ratio, Rat(5, 4)) THEN "High (estimated 25-45%)"
  ELSE "Very high (estimated 40-60%+)"

tipsFor(label) ==
  IF label = "over" THEN "itemized breakdown, 2 more bids, lower-cost alternatives"
  ELSE IF label = "under" THEN "confirm scope, exclusions, warranty, change-order terms"
  ELSE "confirm scope + warranty, included/excluded"

\* ---------------------------------------------------------- baseline table
Categories ==
  { "Home services (repairs/visit)", "Home projects (install/remodel)",
    "Auto (repair/body)", "Medical (out-of-pocket)", "Moving / logistics",
    "Professional services", "Bills / recurring charges", "Other" }

BaseTable(cat) ==
  CASE cat = "Home services (repairs/visit)"   -> [small |-> 450, medium |-> 1800, large |-> 8500]
    [] cat = "Home projects (install/remodel)" -> [small |-> 900, medium |-> 4500, large |-> 22000]
    [] cat = "Auto (repair/body)"              -> [small |-> 300, medium |-> 1400, large |-> 6000]
    [] cat = "Medical (out-of-pocket)"         -> [small |-> 250, medium |-> 1200, large |-> 5000]
    [] cat = "Moving / logistics"              -> [small |-> 350, medium |-> 1600, large |-> 7500]
    [] cat = "Professional services"           -> [small |-> 500, medium |-> 2500, large |-> 12000]
    [] cat = "Bills / recurring charges"       -> [small |-> 120, medium |-> 350, large |-> 1200]
    [] OTHER                                   -> [small |-> 500, medium |-> 2000, large |-> 9000]

baseMedian(category, scale) ==
  LET cat == IF category \in Categories THEN category ELSE "Other"
      sc == IF scale = "small" \/ scale = "large" THEN scale ELSE "medium"
  IN  BaseTable(cat)[sc]

\* ---------------------------------------------------------- region resolver
\* A postal code is a sequence of one-character strings; the absent field is
\* the empty sequence (both are falsy in `!zip`).
regionFromZip(zip) ==
  IF Len(zip) < 1 THEN "National"
  ELSE LET d == zip[1]
       IN  IF d \in {"0", "1", "2"} THEN "Northeast"
           ELSE IF d \in {"3", "4", "5"} THEN "South"
           ELSE IF d \in {"6", "7"} THEN "Midwest"
           ELSE IF d \in {"8", "9"} THEN "West"
           ELSE "National"

CPI_SERIES(region) ==
  CASE region = "National"  -> "CUUR0000SA0"
    [] region = "Northeast" -> "CUUR0100SA0"
    [] region = "Midwest"   -> "CUUR0200SA0"
    [] region = "South"     -> "CUUR0300SA0"
    [] region = "West"      -> "CUUR0400SA0"

\* ------------------------------------------------------------- JS values
\* A JSON field: undefined (absent), a number, or a string (a sequence of
\* one-character strings).
JsUndef == [t |-> "undefined", s |-> <<>>, n |-> 0]
JsNum(i) == [t |-> "number", s |-> <<>>, n |-> i]
JsStr(s) == [t |-> "string", s |-> s, n |-> 0]

Digits == {"0", "1", "2", "3", "4", "5", "6", "7", "8", "9"}

DigitVal(c) ==
  CASE c = "0" -> 0 [] c = "1" -> 1 [] c = "2" -> 2 [] c = "3" -> 3 [] c = "4" -> 4
    [] c = "5" -> 5 [] c = "6" -> 6 [] c = "7" -> 7 [] c = "8" -> 8 [] c = "9" -> 9

RECURSIVE DigitsVal(_)
DigitsVal(s) ==
  IF s = <<>> THEN 0 ELSE 10 * DigitsVal(SubSeq(s, 1, Len(s) - 1)) + DigitVal(s[Len(s)])

RECURSIVE Pow10(_)
Pow10(k) == IF k = 0 THEN 1 ELSE 10 * Pow10(k - 1)

AllDigits(s) == \A i \in 1..Len(s) : s[i] \in Digits

\* Number(string) for the decimal literals the handler meets: "" is 0, an
\* optionally signed digit string with an optional fraction is its value,
\* anything else is NaN.
StrToNum(s) ==
  IF s = <<>> THEN Num(0)
  ELSE LET neg == s[1] = "-"
           body == IF neg THEN SubSeq(s, 2, Len(s)) ELSE s
           dots == {i \in 1..Len(body) : body[i] = "."}
       IN  IF dots = {}
             THEN IF body # <<>> /\ AllDigits(body)
                    THEN Num((IF neg THEN 0 - 1 ELSE 1) * DigitsVal(body))
                    ELSE NaN
           ELSE IF Cardinality(dots) > 1 THEN NaN
           ELSE LET k == CHOOSE i \in dots : TRUE
                    ip == SubSeq(body, 1, k - 1)
                    fp == SubSeq(body, k + 1, Len(body))
                IN  IF Len(ip) + Len(fp) > 0 /\ AllDigits(ip) /\ AllDigits(fp)
                      THEN Rat((IF neg THEN 0 - 1 ELSE 1)
                                 * (DigitsVal(ip) * Pow10(Len(fp)) + DigitsVal(fp)),
                               Pow10(Len(fp)))
                      ELSE NaN

\* Number(price) of the handler.
ToNumber(v) ==
  CASE v.t = "undefined" -> NaN
    [] v.t = "number"    -> Num(v.n)
    [] v.t = "string"    -> StrToNum(v.s)

\* null of `number | null`, and JavaScript's `!x` on such a value.
Null == [n |-> 0, d |-> 0 - 1]
IsNull(x) == x.d < 0
Falsy(x) == IsNull(x) \/ IsNaN(x) \/ (x.d > 0 /\ x.n = 0)

\* ------------------------------------------------------------------ state
VARIABLES
  now,        \* Date.now(), in ms since the process started
  cpiCache,   \* cpiCache: series id -> {value, ts}, or no entry
  req,        \* one record per request slot: the handler invocation's state
  subStatus,  \* payments collaborator: status of subscription "sub_1"
  probe       \* the function under test of the pure-function specifications

vars == <<now, cpiCache, req, subStatus, probe>>

Req == 1..NumReq
Series == {CPI_SERIES(g) : g \in {"National", "Northeast", "Midwest", "South", "West"}}

\* The clock advances by half a freshness window, so that two instants are
\* 30, 60 or 90 minutes apart: inside, at the edge of and outside the window.
TickMs == CACHE_MS \div 2

NoEntry == [present |-> FALSE, value |-> Null, ts |-> 0]
NoCall == [series |-> "", ts |-> 0, st |-> "none", value |-> Null]
NoReport == [present |-> FALSE, diffPct |-> NaN, direction |-> "", estimated_margin |-> "",
             low |-> NaN, high |-> NaN, tips |-> "", data_note |-> ""]
NoRes == [status |-> 0, label |-> "", score |-> NaN, access |-> "", error |-> "",
          full_report |-> NoReport]

\* ------------------------------------------------------- request bodies
NoBody == [method |-> "", mode |-> "", session_id |-> "", category |-> "",
           scale |-> "", zip |-> <<>>, price |-> JsUndef]

Auto == "Auto (repair/body)"
Zip90210 == <<"9", "0", "2", "1", "0">>

Post(mode, sid, cat, sc, zip, price) ==
  [method |-> "POST", mode |-> mode, session_id |-> sid, category |-> cat,
   scale |-> sc, zip |-> zip, price |-> price]

\* The requests the environment sends.  session_id "" is the absent (or
\* empty) field; scale "" is the absent field, which the destructuring
\* defaults to "medium"; zip <<>> is the absent (or empty) field.
Bodies ==
  { [NoBody EXCEPT !.method = "GET"],
    Post("preview", "", Auto, "", <<>>, JsUndef),
    Post("preview", "", Auto, "", Zip90210, JsNum(2800)),
    Post("full", "", Auto, "", Zip90210, JsNum(2800)),
    Post("full", "cs_sub", Auto, "", Zip90210, JsNum(2800)),
    Post("full", "cs_bogus", Auto, "", Zip90210, JsNum(2800)),
    Post("full", "cs_paid", Auto, "", Zip90210, JsUndef) }

\* Requests that race on one key of the index cache: previews with a price
\* and no postal code, whose two calls are both for the national series.
RaceBodies == { Post("preview", "", Auto, "", <<>>, JsNum(2800)) }

\* Requests that meet the price gate and the payment gate; mode "" is the
\* absent field, and the last one is the request without a body.
GateBodies ==
  { [NoBody EXCEPT !.method = "GET"], [NoBody EXCEPT !.method = "POST"] }
  \cup
  { Post(m, sid, Auto, "", Zip90210, pr) :
      m \in {"preview", "full"},
      sid \in {"", "cs_unpaid", "cs_paid", "cs_sub", "cs_bogus"},
      pr \in {JsUndef, JsNum(2800)} }
  \cup
  { Post(m, "", "Plumbing", "large", <<"x">>, pr) :
      m \in {"preview", ""},
      pr \in {JsStr(<<"a", "b", "c">>), JsNum(0), JsNum(0 - 5), JsStr(<<"1", "2", "6", "0">>)} }

\* ------------------------------------------------ payments collaborator
\* stripe.checkout.sessions.retrieve(id): the sessions the provider holds.
StripeKnows(id) == id \in {"cs_unpaid", "cs_paid", "cs_sub"}

StripeSession(id) ==
  CASE id = "cs_paid"   -> [mode |-> "payment", payment_status |-> "paid",
                            status |-> "complete", subscription |-> ""]
    [] id = "cs_unpaid" -> [mode |-> "payment", payment_status |-> "unpaid",
                            status |-> "open", subscription |-> ""]
    [] id = "cs_sub"    -> [mode |-> "subscription", payment_status |-> "paid",
                            status |-> "complete", subscription |-> "sub_1"]

SubStatuses == {"active", "trialing", "canceled"}

\* ------------------------------------------------------- access verifier
\* verifyAccess, one operator per stretch between two awaits.
VerifyStart(sessionId) == IF sessionId = "" THEN "deny" ELSE "retrieveSession"

SessionGrantsAlways(s) == s.mode = "payment"
SessionGrants(s) == s.mode = "payment" /\ s.payment_status = "paid"

SessionNeedsSub(s) == s.mode = "subscription" /\ s.status = "complete" /\ s.subscription # ""

VerifyOnSession(s) ==
  IF SessionGrants(s) THEN "once"
  ELSE IF SessionNeedsSub(s) THEN "retrieveSub"
  ELSE "deny"

SubGrantsAlways(st) == TRUE
SubGrants(st) == st = "active" \/ st = "trialing"

VerifyOnSub(st) == IF SubGrants(st) THEN "sub" ELSE "deny"

\* ------------------------------------------------------- index fetcher
\* `cached && (now - cached.ts) < CACHE_MS`
CacheFreshInclusive(cached, t) == cached.present /\ (t - cached.ts) <= CACHE_MS
CacheFresh(cached, t) == cached.present /\ (t - cached.ts) < CACHE_MS

\* fetchLatestCPI up to its first await: a cache hit returns at once, a miss
\* issues the request and remembers `now`.
FetchCall(seriesId) ==
  LET cached == cpiCache[seriesId]
  IN  IF CacheFresh(cached, now)
        THEN [series |-> seriesId, ts |-> now, st |-> "hit", value |-> cached.value]
        ELSE [series |-> seriesId, ts |-> now, st |-> "inflight", value |-> Null]

\* What the time-series collaborator answers: the request fails, the body is
\* not JSON, or it is JSON with or without a newest data point.
Failure(kind) == [kind |-> kind, hasPoint |-> FALSE, value |-> <<>>]
NoData == [kind |-> "json", hasPoint |-> FALSE, value |-> <<>>]
Point(value) == [kind |-> "json", hasPoint |-> TRUE, value |-> value]

\* The newest reading the collaborator publishes for a series.
Reading(seriesId) ==
  IF seriesId = CPI_SERIES("National") THEN <<"3", "0", "0">> ELSE <<"3", "3", "0">>

Responses(seriesId) ==
  { Failure("network error"), Failure("invalid json"), NoData, Point(Reading(seriesId)) }

\* The answers of the cache race: a failure, or one of two readings (the
\* published value is revised while the requests race).
RaceResponses ==
  { Failure("network error"), Point(<<"3", "0", "0">>), Point(<<"3", "3", "0">>) }

\* `await fetch(...)` and `await res.json()` reject on these.
ResponseThrows(resp) == resp.kind # "json"

\* `point?.value ? Number(point.value) : null`
ParseValue(resp) ==
  IF resp.hasPoint /\ resp.value # <<>> THEN StrToNum(resp.value) ELSE Null

\* `cpiCache.set(key, { value, ts: now })`
CacheSetKeepNewest(cache, seriesId, value, ts) ==
  IF cache[seriesId].present /\ cache[seriesId].ts > ts THEN cache
  ELSE [cache EXCEPT ![seriesId] = [present |-> TRUE, value |-> value, ts |-> ts]]
CacheSet(cache, seriesId, value, ts) ==
  [cache EXCEPT ![seriesId] = [present |-> TRUE, value |-> value, ts |-> ts]]

\* ------------------------------------------------ multiplier computation
NeutralNote == "BLS CPI unavailable at the moment; used neutral multipliers."
AdjustedNote == "Benchmarks adjusted using BLS CPI (region vs national)."

\* cpiMultipliers after Promise.all has fulfilled with [nat, reg].
cpiMultipliers(zip, nat, reg) ==
  IF Falsy(nat) \/ Falsy(reg)
    THEN [region |-> regionFromZip(zip), localMult |-> Num(1), stateMult |-> Num(1),
          nationalMult |-> Num(1), note |-> NeutralNote]
    ELSE [region |-> regionFromZip(zip), localMult |-> Div(reg, nat),
          stateMult |-> Div(reg, nat), nationalMult |-> Num(1), note |-> AdjustedNote]

\* ---------------------------------------------------------------- handler
\* One handler invocation: where it stands (pc), its request body, its two
\* fetchLatestCPI calls, the lookups it has made at the payments collaborator
\* (with what they returned) and its response.
IdleReq == [pc |-> "idle", body |-> NoBody, calls |-> <<NoCall, NoCall>>,
            stripeCalls |-> 0, session |-> "", sub |-> "", res |-> NoRes]

Respond(rec, res) == [rec EXCEPT !.pc = "done", !.res = res]

Res405 == [NoRes EXCEPT !.status = 405, !.error = "POST only"]
Res403 == [NoRes EXCEPT !.status = 403, !.error = "Payment required."]
Res500 == [NoRes EXCEPT !.status = 500, !.error = "Server error"]
ResNeedsPrice == [NoRes EXCEPT !.status = 200, !.label = "needs price", !.score = Rat(1, 2)]

\* `!Number.isNaN(p) && p > 0`
havePrice(p) == ~IsNaN(p) /\ Gt(p, Num(0))

\* `if (!havePrice && mode !== "full")`
NeedsPriceNonNegative(price, mode) == ~Ge(ToNumber(price), Num(0)) /\ mode # "full"
NeedsPriceShortCircuit(price, mode) == ~havePrice(ToNumber(price)) /\ mode # "full"

AbsNum(x) == IF x.n < 0 THEN [x EXCEPT !.n = 0 - x.n] ELSE x

\* The handler's locals once Promise.all has fulfilled with [nat, reg]:
\* cpi, base, localMedian and cls.
Locals(b, nat, reg) ==
  LET cpi == cpiMultipliers(b.zip, nat, reg)
      base == Num(baseMedian(b.category, IF b.scale = "" THEN "medium" ELSE b.scale))
      localMedian == Mul(base, cpi.localMult)
  IN  [cpi |-> cpi, base |-> base, localMedian |-> localMedian,
       cls |-> classify(ToNumber(b.price), localMedian)]

LocalsOf(rec) == Locals(rec.body, rec.calls[1].value, rec.calls[2].value)

\* The full_report object of the paid response.
FullReport(l) ==
  [present |-> TRUE,
   diffPct |-> MathRound(AbsNum(Mul(Sub(l.cpi.localMult, Num(1)), Num(100)))),
   direction |-> IF Ge(l.cpi.localMult, Num(1)) THEN "higher" ELSE "lower",
   estimated_margin |-> marginEstimate(l.cls.ratio),
   low |-> MathRound(Mul(l.localMedian, Rat(17, 20))),
   high |-> MathRound(Mul(l.localMedian, Rat(6, 5))),
   tips |-> tipsFor(l.cls.label),
   data_note |-> l.cpi.note]

\* `if (!access.ok) return res.status(403)...`, else the full report.
AccessDenied(access) == access = "deny"

AfterAccess(rec, access) ==
  LET l == LocalsOf(rec)
  IN  IF AccessDenied(access) THEN Respond(rec, Res403)
      ELSE Respond(rec, [NoRes EXCEPT !.status = 200, !.label = l.cls.label,
                                      !.score = l.cls.score, !.access = access,
                                      !.full_report = FullReport(l)])

\* `if (mode !== "full")`: the free preview.
IsPreview(mode) == mode # "full"

\* The handler from the fulfilment of cpiMultipliers' Promise.all to its next
\* await on the payments collaborator, or to its response.
AfterCpi(rec) ==
  LET b == rec.body
      l == LocalsOf(rec)
  IN  IF IsPreview(b.mode)
        THEN Respond(rec, [NoRes EXCEPT !.status = 200, !.label = l.cls.label,
                                        !.score = l.cls.score])
      ELSE IF VerifyStart(b.session_id) = "deny"
        THEN AfterAccess(rec, "deny")
      ELSE [rec EXCEPT !.pc = "session", !.stripeCalls = 1]

Settled(c) == c.st \in {"hit", "ok"}

\* The handler from its entry to its first await or response.
HandlerStart(b) ==
  LET region == regionFromZip(b.zip)
      calls == <<FetchCall(CPI_SERIES("National")), FetchCall(CPI_SERIES(region))>>
      rec == [IdleReq EXCEPT !.body = b]
  IN  IF b.method # "POST" THEN Respond(rec, Res405)
      ELSE IF NeedsPriceShortCircuit(b.price, b.mode) THEN Respond(rec, ResNeedsPrice)
      ELSE IF Settled(calls[1]) /\ Settled(calls[2])
        THEN AfterCpi([rec EXCEPT !.calls = calls])
      ELSE [rec EXCEPT !.pc = "cpi", !.calls = calls]

\* ---------------------------------------------------------------- actions
\* A request arrives (slots are taken in order).
Start(r, b) ==
  /\ req[r].pc = "idle"
  /\ IF r = 1 THEN TRUE ELSE req[r - 1].pc # "idle"
  /\ req' = [req EXCEPT ![r] = HandlerStart(b)]
  /\ UNCHANGED <<now, cpiCache, subStatus, probe>>

\* The time-series collaborator answers call i of request r: fetchLatestCPI
\* runs from its await to its return or throw, and the handler goes on if its
\* Promise.all is thereby decided.  A fetch whose request has already been
\* answered still runs to completion.
FetchSettle(r, i, resp) ==
  LET rec == req[r]
      c == rec.calls[i]
      other == rec.calls[3 - i]
  IN  /\ c.st = "inflight"
      /\ IF ResponseThrows(resp)
           THEN LET rec1 == [rec EXCEPT !.calls[i].st = "rejected"]
                IN  /\ cpiCache' = cpiCache
                    /\ req' = [req EXCEPT ![r] =
                                 IF rec.pc = "cpi" THEN Respond(rec1, Res500) ELSE rec1]
           ELSE LET v == ParseValue(resp)
                    rec1 == [rec EXCEPT !.calls[i].st = "ok", !.calls[i].value = v]
                IN  /\ cpiCache' = CacheSet(cpiCache, c.series, v, c.ts)
                    /\ req' = [req EXCEPT ![r] =
                                 IF rec.pc = "cpi" /\ Settled(other) THEN AfterCpi(rec1)
                                 ELSE rec1]
      /\ UNCHANGED <<now, subStatus, probe>>

\* stripe.checkout.sessions.retrieve answers: it throws (no such session, or
\* the call fails), or returns the session.
SessionSettle(r, fails) ==
  LET rec == req[r]
      id == rec.body.session_id
  IN  /\ rec.pc = "session"
      /\ req' = [req EXCEPT ![r] =
           IF fails \/ ~StripeKnows(id) THEN Respond(rec, Res500)
           ELSE LET v == VerifyOnSession(StripeSession(id))
                    rec1 == [rec EXCEPT !.session = id]
                IN  IF v = "retrieveSub" THEN [rec1 EXCEPT !.pc = "sub", !.stripeCalls = 2]
                    ELSE AfterAccess(rec1, v)]
      /\ UNCHANGED <<now, cpiCache, subStatus, probe>>

\* stripe.subscriptions.retrieve answers with the subscription as it is now.
SubSettle(r, fails) ==
  LET rec == req[r]
  IN  /\ rec.pc = "sub"
      /\ req' = [req EXCEPT ![r] =
           IF fails THEN Respond(rec, Res500)
           ELSE AfterAccess([rec EXCEPT !.sub = subStatus], VerifyOnSub(subStatus))]
      /\ UNCHANGED <<now, cpiCache, subStatus, probe>>

\* Time passes.
Tick ==
  /\ now < MaxTicks * TickMs
  /\ now' = now + TickMs
  /\ UNCHANGED <<cpiCache, req, subStatus, probe>>

\* The subscription changes at the payments provider.
StripeChange(st) ==
  /\ st # subStatus
  /\ subStatus' = st
  /\ UNCHANGED <<now, cpiCache, req, probe>>

NoProbe == [op |-> "none"]

Init ==
  /\ now = 0
  /\ cpiCache = [k \in Series |-> NoEntry]
  /\ req = [r \in Req |-> IdleReq]
  /\ subStatus = "active"
  /\ probe = NoProbe

Next ==
  \/ \E r \in Req, b \in Bodies : Start(r, b)
  \/ \E r \in Req, i \in 1..2 : \E resp \in Responses(req[r].calls[i].series) :
       FetchSettle(r, i, resp)
  \/ \E r \in Req, fails \in BOOLEAN : SessionSettle(r, fails)
  \/ \E r \in Req, fails \in BOOLEAN : SubSettle(r, fails)
  \/ Tick
  \/ \E st \in SubStatuses : StripeChange(st)

Spec == Init /\ [][Next]_vars

\* The index cache under racing previews.
NextRace ==
  \/ \E r \in Req, b \in RaceBodies : Start(r, b)
  \/ \E r \in Req, i \in 1..2, resp \in RaceResponses : FetchSettle(r, i, resp)
  \/ Tick

SpecRace == Init /\ [][NextRace]_vars

\* The price gate and the payment gate while the index cache is fresh: both
\* series were fetched at time 0 and no time passes.
WarmCache ==
  [k \in Series |->
     IF k = CPI_SERIES("National") THEN [present |-> TRUE, value |-> Num(300), ts |-> 0]
     ELSE IF k = CPI_SERIES("West") THEN [present |-> TRUE, value |-> Num(330), ts |-> 0]
     ELSE NoEntry]

InitGate ==
  /\ now = 0
  /\ cpiCache = WarmCache
  /\ req = [r \in Req |-> IdleReq]
  /\ subStatus \in SubStatuses
  /\ probe = NoProbe

NextGate ==
  \/ \E r \in Req, b \in GateBodies : Start(r, b)
  \/ \E r \in Req, fails \in BOOLEAN : SessionSettle(r, fails)
  \/ \E r \in Req, fails \in BOOLEAN : SubSettle(r, fails)
  \/ \E st \in SubStatuses : StripeChange(st)

SpecGate == InitGate /\ [][NextGate]_vars

\* ------------------------------------------- the classifier on its own
\* classify applied to one (price, median) pair of positive integers.
InitClassify ==
  /\ now = 0
  /\ cpiCache = [k \in Series |-> NoEntry]
  /\ req = [r \in Req |-> IdleReq]
  /\ subStatus = "active"
  /\ probe \in { [op |-> "classify", price |-> pr, median |-> m, done |-> FALSE,
                  out |-> [ratio |-> NaN, score |-> NaN, label |-> ""]] :
                 pr \in 1..MaxPrice, m \in 1..MaxMedian }

ClassifyApply ==
  /\ probe.op = "classify"
  /\ ~probe.done
  /\ probe' = [probe EXCEPT !.done = TRUE,
                            !.out = classify(Num(probe.price), Num(probe.median))]
  /\ UNCHANGED <<now, cpiCache, req, subStatus>>

SpecClassify == InitClassify /\ [][ClassifyApply]_vars

\* -------------------------------------- the access verifier on its own
\* verifyAccess against every checkout session and subscription the payments
\* collaborator may hold for the session id.
SessionObjects ==
  [mode : {"payment", "subscription", "setup"},
   payment_status : {"paid", "unpaid", "no_payment_required"},
   status : {"open", "complete", "expired"},
   subscription : {"", "sub_1"}]

AllSubStatuses == {"active", "trialing", "past_due", "canceled", "incomplete"}

InitVerify ==
  /\ now = 0
  /\ cpiCache = [k \in Series |-> NoEntry]
  /\ req = [r \in Req |-> IdleReq]
  /\ subStatus = "active"
  /\ probe \in { [op |-> "verify", sessionId |-> sid, s |-> s, subSt |-> st,
                  pc |-> "start", lookups |-> 0, result |-> ""] :
                 sid \in {"", "cs_x"}, s \in SessionObjects, st \in AllSubStatuses }

VerifyCall ==
  /\ probe.op = "verify"
  /\ probe.pc = "start"
  /\ probe' = IF VerifyStart(probe.sessionId) = "deny"
                THEN [probe EXCEPT !.pc = "done", !.result = "deny"]
                ELSE [probe EXCEPT !.pc = "session", !.lookups = 1]
  /\ UNCHANGED <<now, cpiCache, req, subStatus>>

VerifySessionRetrieved ==
  /\ probe.op = "verify"
  /\ probe.pc = "session"
  /\ probe' = LET v == VerifyOnSession(probe.s)
              IN  IF v = "retrieveSub" THEN [probe EXCEPT !.pc = "sub", !.lookups = 2]
                  ELSE [probe EXCEPT !.pc = "done", !.result = v]
  /\ UNCHANGED <<now, cpiCache, req, subStatus>>

VerifySubRetrieved ==
  /\ probe.op = "verify"
  /\ probe.pc = "sub"
  /\ probe' = [probe EXCEPT !.pc = "done", !.result = VerifyOnSub(probe.subSt)]
  /\ UNCHANGED <<now, cpiCache, req, subStatus>>

NextVerify == VerifyCall \/ VerifySessionRetrieved \/ VerifySubRetrieved

SpecVerify == InitVerify /\ [][NextVerify]_vars

\* ================================================================= claims
Done(r) == req[r].pc = "done"
CallsMade == {<<r, i>> \in Req \X {1, 2} : req[r].calls[i].st # "none"}
Call(c) == req[c[1]].calls[c[2]]
Issued(c) == Call(c).st # "hit"

\* C7: for positive price and median, classify labels "under" exactly when
\* price/median < 0.9, "over" exactly when price/median > 1.15, and "fair"
\* otherwise; at median 100 the prices 89, 90, 115 and 116 are under, fair,
\* fair and over.
C7_LabelThresholds ==
  (probe.op = "classify" /\ probe.done) =>
    LET pr == probe.price
        m == probe.median
        l == probe.out.label
    IN  /\ (l = "under") <=> (10 * pr < 9 * m)
        /\ (l = "over") <=> (20 * pr > 23 * m)
        /\ (l = "fair") <=> (10 * pr >= 9 * m /\ 20 * pr <= 23 * m)
        /\ (m = 100 /\ pr = 89) => l = "under"
        /\ (m = 100 /\ pr = 90) => l = "fair"
        /\ (m = 100 /\ pr = 115) => l = "fair"
        /\ (m = 100 /\ pr = 116) => l = "over"

C7_Witness ==
  /\ probe.op = "classify" /\ probe.done
  /\ probe.median = 100 /\ probe.price = 90
  /\ probe.out.label = "fair"

\* C6: verifyAccess returns ok exactly for a paid one-time session, or for a
\* complete subscription session whose linked subscription, found by a second
\* lookup, is active or trialing; everything else is not-ok, and an absent
\* session id is not-ok without any lookup at the payments collaborator.
C6_OkExactlyInTwoCases ==
  (probe.op = "verify" /\ probe.pc = "done") =>
    LET s == probe.s
        once == s.mode = "payment" /\ s.payment_status = "paid"
        sub == /\ ~once
               /\ s.mode = "subscription" /\ s.status = "complete" /\ s.subscription # ""
               /\ probe.subSt \in {"active", "trialing"}
    IN  /\ probe.result \in {"deny", "once", "sub"}
        /\ (probe.result = "once") <=> (probe.sessionId # "" /\ once)
        /\ (probe.result = "sub") <=> (probe.sessionId # "" /\ sub)
        /\ (probe.result = "sub") => probe.lookups = 2
        /\ (probe.result = "once") => probe.lookups = 1
        /\ (probe.sessionId = "") => (probe.result = "deny" /\ probe.lookups = 0)

C6_Witness ==
  /\ probe.op = "verify" /\ probe.pc = "done"
  /\ probe.result = "sub" /\ probe.lookups = 2 /\ probe.subSt = "trialing"

\* C1: a POST request in full mode whose session id is absent or invalid is
\* answered 403 (payment required) and never with a full_report, whatever its
\* other fields are and whatever the index lookups return.
C1_InvalidSessionGets403 ==
  \A r \in Req :
    (/\ Done(r)
     /\ req[r].body.method = "POST"
     /\ req[r].body.mode = "full"
     /\ req[r].body.session_id \in {"", "cs_unpaid", "cs_bogus"})
    => (req[r].res.status = 403 /\ ~req[r].res.full_report.present)

\* C3: fetchLatestCPI never propagates a failure: whenever the index request
\* fails or its body cannot be parsed, the call returns (null) and does not
\* throw.
C3_FetchNeverThrows ==
  \A c \in CallsMade : Call(c).st # "rejected"

\* C4: whenever the national or the regional index value is unavailable (a
\* fetch fails or yields no value), the request is not answered with a server
\* error because of it, and the multipliers are all 1.0 with the explanatory
\* note, so the benchmark is the unadjusted baseline.
C4_UnavailableIndexIsNeutral ==
  \A r \in Req :
    /\ (Done(r) /\ \E i \in 1..2 : req[r].calls[i].st = "rejected")
         => req[r].res.status # 500
    /\ (/\ Settled(req[r].calls[1]) /\ Settled(req[r].calls[2])
        /\ Falsy(req[r].calls[1].value) \/ Falsy(req[r].calls[2].value))
         => LET l == LocalsOf(req[r])
            IN  /\ l.cpi.localMult = Num(1)
                /\ l.cpi.stateMult = Num(1)
                /\ l.cpi.nationalMult = Num(1)
                /\ l.cpi.note = NeutralNote
                /\ l.localMedian = l.base

\* C8: in every mode the handler classifies only a price greater than 0
\* against a benchmark greater than 0, so every 200 response that reports a
\* classification carries a score in [0,1] and a label under, fair or over.
C8_ClassifiedResponsesInRange ==
  \A r \in Req :
    (Done(r) /\ req[r].res.status = 200 /\ req[r].res.label # "needs price")
    => /\ Gt(ToNumber(req[r].body.price), Num(0))
       /\ Gt(LocalsOf(req[r]).localMedian, Num(0))
       /\ Ge(req[r].res.score, Num(0))
       /\ Ge(Num(1), req[r].res.score)
       /\ req[r].res.label \in {"under", "fair", "over"}

\* C5: a POST request whose mode is not "full" and whose price is missing or
\* invalid (not a number, or not greater than 0) is answered at once with 200,
\* label "needs price" and score 0.5, whatever its other fields are, without
\* any index fetch or cache lookup and without any call to the payments
\* collaborator.
C5_NeedsPriceShortCircuit ==
  \A r \in Req :
    LET b == req[r].body
        p == ToNumber(b.price)
    IN  (/\ req[r].pc # "idle"
         /\ b.method = "POST"
         /\ b.mode # "full"
         /\ IsNaN(p) \/ p.n <= 0)
        => /\ Done(r)
           /\ req[r].res = [NoRes EXCEPT !.status = 200, !.label = "needs price",
                                         !.score = Rat(1, 2)]
           /\ req[r].calls = <<NoCall, NoCall>>
           /\ req[r].stripeCalls = 0

C5_Witness ==
  \E r \in Req :
    /\ Done(r)
    /\ req[r].body.mode = ""
    /\ req[r].body.price = JsNum(0)
    /\ req[r].body.category = "Plumbing"
    /\ req[r].res.label = "needs price"
    /\ req[r].res.score = Rat(1, 2)

\* C9: a response carries full_report only if the request is in full mode and
\* the payments collaborator, looked up during that same request, grants
\* access at the moment it answers: a paid one-time session, or a complete
\* subscription session whose subscription is active or trialing right then.
\* Nothing is reused from an earlier request, so a session accepted in one
\* request is rejected in a later one once its subscription has lapsed.
C9_ReportOnlyOnFreshVerification ==
  [][\A r \in Req :
       /\ (req'[r].res.full_report.present /\ ~req[r].res.full_report.present)
            => /\ req[r].body.mode = "full"
               /\ req'[r].body = req[r].body
               /\ StripeKnows(req[r].body.session_id)
               /\ LET s == StripeSession(req[r].body.session_id)
                  IN  \/ /\ req[r].pc = "session"
                         /\ s.mode = "payment" /\ s.payment_status = "paid"
                         /\ req'[r].res.access = "once"
                      \/ /\ req[r].pc = "sub"
                         /\ s.mode = "subscription" /\ s.status = "complete"
                         /\ subStatus \in {"active", "trialing"}
                         /\ req'[r].res.access = "sub"
       /\ (req[r].pc = "sub" /\ req'[r].pc = "done" /\ subStatus = "canceled")
            => req'[r].res.status \in {403, 500}
    ]_vars

C9_Witness ==
  \E r, q \in Req :
    /\ Done(r) /\ Done(q)
    /\ req[r].body.session_id = "cs_sub" /\ req[q].body.session_id = "cs_sub"
    /\ req[r].res.status = 200 /\ req[r].res.full_report.present
    /\ req[r].res.access = "sub"
    /\ req[q].body.mode = "full" /\ req[q].res.status = 403 /\ req[q].sub = "canceled"

\* C2 (as claimed): for every series, any two fetchLatestCPI calls made less
\* than one freshness window apart, sequential or concurrent, issue a single
\* external fetch between them.
C2_OneFetchPerWindow ==
  \A c, e \in CallsMade :
    (/\ c # e
     /\ Call(c).series = Call(e).series
     /\ Call(e).ts - Call(c).ts >= 0
     /\ Call(e).ts - Call(c).ts < CACHE_MS)
    => ~(Issued(c) /\ Issued(e))

\* C2 (amended): a fetchLatestCPI call returns the cached value without an
\* external fetch exactly when, at the moment of the call, the cache holds an
\* entry for the series whose timestamp is less than CACHE_MS old; in every
\* other case (no entry stored yet, or an entry at least CACHE_MS old) it
\* issues a new fetch.
C2_FetchUnlessFreshEntry ==
  [][\A r \in Req : \A i \in 1..2 :
       (req[r].calls[i].st = "none" /\ req'[r].calls[i].st # "none")
       => LET c == req'[r].calls[i]
              cached == cpiCache[c.series]
              fresh == cached.present /\ now - cached.ts < CACHE_MS
          IN  /\ c.ts = now
              /\ (c.st = "hit") <=> fresh
              /\ (c.st = "inflight") <=> ~fresh
              /\ (c.st = "hit") => c.value = cached.value
    ]_vars

C2_Witness ==
  \E c, e \in CallsMade :
    /\ Call(c).series = Call(e).series
    /\ Call(c).st = "ok" /\ Call(c).ts = 0
    /\ Call(e).st = "hit" /\ Call(e).ts = TickMs
    /\ Call(e).value = Num(330)

\* C10 (as claimed): racing fetches for one key never leave the cache with an
\* older entry: once no fetch for the key is in flight, its entry carries the
\* timestamp of the most recently started fetch that stored a value.
C10_EntryIsNewestStarted ==
  \A c \in CallsMade :
    (/\ Call(c).st = "ok"
     /\ \A e \in CallsMade : Call(e).series = Call(c).series => Call(e).st # "inflight")
    => cpiCache[Call(c).series].ts >= Call(c).ts

\* C10 (amended): the race is last-writer-wins by completion: every fetch that
\* completes overwrites the key's entry with its own value and its own start
\* timestamp, whatever the entry held, so after all racing fetches complete the
\* entry is that of the fetch that completed last.
C10_LastWriterWins ==
  [][\A r \in Req : \A i \in 1..2 :
       (req[r].calls[i].st = "inflight" /\ req'[r].calls[i].st = "ok")
       => cpiCache'[req[r].calls[i].series] =
            [present |-> TRUE, value |-> req'[r].calls[i].value, ts |-> req[r].calls[i].ts]
    ]_vars

C10_Witness ==
  \E c, e \in CallsMade :
    /\ Call(c).series = Call(e).series
    /\ Call(c).st = "ok" /\ Call(e).st = "ok"
    /\ Call(c).ts < Call(e).ts
    /\ cpiCache[Call(c).series] = [present |-> TRUE, value |-> Call(c).value, ts |-> Call(c).ts]
    /\ Call(c).value # Call(e).value

====
